---- MODULE Spec2Model ----
(***************************************************************************)
(* Zenorc payment relay (src/zenorc.py): the ingestion loop (main_loop +   *)
(* poll_email), the cooldown scheduler (processor) and the dispatcher      *)
(* (send_mqtt), as two threads over the shared module-level state.         *)
(*                                                                         *)
(* A message body is a sequence of words (the text split at single         *)
(* spaces); Python's substring test `p in body` is containment of a        *)
(* contiguous run of words.  Time is the value time.time() returns, in     *)
(* seconds.                                                                *)
(***************************************************************************)
EXTENDS Integers, Sequences, FiniteSets, TLC

VARIABLES
    now,            \* the wall clock read by time.time()
    seen_uids,      \* zenorc.py:35
    seen_txn_ids,   \* zenorc.py:36, :73
    queue,          \* zenorc.py:37
    status,         \* zenorc.py:38
    last_processed, \* zenorc.py:39
    sheet,          \* rows appended to the Google sheet by log_payment (ids)
    mainPc,         \* position of the main_loop thread
    txn_id,         \* main_loop's local txn_id ("none" = None)
    hit,            \* poll_email: the uid whose message was returned (0 = none)
    skipped,        \* poll_email: the uids skipped at line 175-176 in this pass
    unseen,         \* poll_email: the uids of this pass, data[0].split()[-30:]
    procPc,         \* position of the processor thread (send_mqtt included)
    cur,            \* processor's local txn_id
    attempt,        \* send_mqtt's loop variable
    ok,             \* processor's local ok (send_mqtt's return value)
    lastFail,       \* why the latest attempt of send_mqtt failed ("none" = it did not)
    wakeAt,         \* when the processor's current bounded wait / sleep ends
    openConns,      \* MQTT clients whose network loop was started and never stopped
    bootIds,        \* history: what _bootstrap_txns returned
    enqLog,         \* history: every queue.append, in order (busy: send_mqtt was running)
    procLog,        \* history: every id set to Processing, in order
    termLog,        \* history: every terminal status assignment, in order
    dropped,        \* history: the uids whose id main_loop discarded at line 241
    cbody,          \* classifier harness: the body under test
    cres            \* classifier harness: what the code returned for cbody

vars == <<now, seen_uids, seen_txn_ids, queue, status, last_processed, sheet,
          mainPc, txn_id, hit, skipped, unseen, procPc, cur, attempt, ok, lastFail,
          wakeAt, openConns, bootIds, enqLog, procLog, termLog, dropped, cbody,
          cres>>

----------------------------------------------------------------------------
(* Program constants *)

COOLDOWN_SECONDS == 40

max_retries == 3

retry_delay == 5

CONNECT_TIMEOUT == 5

WINDOW == 30

\* SEARCH_STRINGS, lower-cased: "₹5", "rs 5", "inr 5" (the rupee sign is
\* written out, TLA+ strings being ASCII).
SEARCH_STRINGS == {<<"rupee5">>, <<"rs", "5">>, <<"inr", "5">>}

(* Bounds of the model *)

Horizon == 45

MaxBodyLen == 3

----------------------------------------------------------------------------
(* Text helpers: str.lower(), `in`, and the two regular expressions *)

Lower(w) ==
    CASE w = "Credited" -> "credited"
      [] w = "Successfully" -> "successfully"
      [] w = "DEBITED" -> "debited"
      [] w = "Reference" -> "reference"
      [] w = "No" -> "no"
      [] OTHER -> w

lower(body) == [i \in 1..Len(body) |-> Lower(body[i])]

Contains(body, pat) ==
    \E i \in 1..(Len(body) - Len(pat) + 1) :
        SubSeq(body, i, i + Len(pat) - 1) = pat

DigitRuns == {"12345678", "87654321", "99999999", "1234567"}

\* (\d{8,})
IsRef(w) == w \in DigitRuns /\ Len(w) >= 8

At(body, i) == IF i \in 1..Len(body) THEN Lower(body[i]) ELSE ""

\* Reference\s*(?:No\.?|number)?\s*[:\-]?\s*(\d{8,}) tried at word i (re.I);
\* the index of the captured group, 0 when the pattern does not match there
Pattern1At(body, i) ==
    IF At(body, i) # "reference" THEN 0
    ELSE LET j == IF At(body, i + 1) \in {"no", "no.", "number"} THEN i + 2 ELSE i + 1
             k == IF At(body, j) \in {":", "-"} THEN j + 1 ELSE j
         IN  IF IsRef(At(body, k)) THEN k ELSE 0

\* transaction reference number\s*(?:is)?\s*[:\-]?\s*(\d{8,}) tried at word i
Pattern2At(body, i) ==
    IF ~(At(body, i) = "transaction" /\ At(body, i + 1) = "reference"
         /\ At(body, i + 2) = "number") THEN 0
    ELSE LET j == IF At(body, i + 3) = "is" THEN i + 4 ELSE i + 3
             k == IF At(body, j) \in {":", "-"} THEN j + 1 ELSE j
         IN  IF IsRef(At(body, k)) THEN k ELSE 0

\* re.search: the leftmost position where the pattern matches
Search1(body) ==
    LET S == {i \in 1..Len(body) : Pattern1At(body, i) # 0}
    IN  IF S = {} THEN 0
        ELSE Pattern1At(body, CHOOSE i \in S : \A j \in S : i <= j)

Search2(body) ==
    LET S == {i \in 1..Len(body) : Pattern2At(body, i) # 0}
    IN  IF S = {} THEN 0
        ELSE Pattern2At(body, CHOOSE i \in S : \A j \in S : i <= j)

_extract_txn_id(body, t) ==
    IF Search1(body) # 0 THEN body[Search1(body)]
    ELSE IF Search2(body) # 0 THEN body[Search2(body)]
    ELSE "TXN" \o ToString(t)

_looks_like_credit(body) ==
    LET body_l == lower(body)
    IN  /\ Contains(body_l, <<"credited">>)
        /\ ~Contains(body_l, <<"debited">>)
        /\ \/ Contains(body_l, <<"successfully", "credited">>)
           \/ Contains(body_l, <<"has", "been", "credited">>)

----------------------------------------------------------------------------
(* The environment: the inbox and the sheet *)

\* The messages the inbox can hold, by uid (IMAP numbers them in arrival order)
Inbox ==
    << <<"rs", "5", "has", "been", "credited", "Reference", "No", ":", "12345678">>,
       <<"inr", "5", "successfully", "credited", "transaction", "reference",
         "number", "is", "12345678">>,
       <<"rs", "5", "has", "been", "credited", "then", "DEBITED", "reference",
         "no", "87654321">>,
       <<"Successfully", "Credited", "reference", "-", "99999999">> >>

UIDs == 1..Len(Inbox)

\* Column 1 of the sheet when the process starts
LedgerRows == {"99999999"}

\* time.time() at start-up; last_processed starts at 0.0 and the epoch clock
\* is far beyond one cooldown
StartTime == COOLDOWN_SECONDS

\* The clock is read at multiples of the waits of send_mqtt, and one second
\* short of a cooldown
TickSteps == {retry_delay, COOLDOWN_SECONDS - 1}

----------------------------------------------------------------------------
(* Helpers *)

\* dict assignment d[k] = v
Put(d, k, v) == [x \in DOMAIN d \cup {k} |-> IF x = k THEN v ELSE d[x]]

RECURSIVE Asc(_)
Asc(S) ==
    IF S = {} THEN <<>>
    ELSE LET m == CHOOSE x \in S : \A y \in S : x <= y
         IN  <<m>> \o Asc(S \ {m})

Range(s) == {s[i] : i \in 1..Len(s)}

Reverse_Identity(s) == s

Reverse(s) == [i \in 1..Len(s) |-> s[Len(s) + 1 - i]]

\* data[0].split()[-30:][::-1]
Recent(U) ==
    LET s == Asc(U)
    IN  Reverse(SubSeq(s, IF Len(s) > WINDOW THEN Len(s) - WINDOW + 1 ELSE 1, Len(s)))

FirstHit_NoSkip(s, seen) ==
    IF {i \in 1..Len(s) : _looks_like_credit(Inbox[s[i]])} = {} THEN 0
    ELSE s[CHOOSE i \in 1..Len(s) :
             /\ _looks_like_credit(Inbox[s[i]])
             /\ \A j \in 1..(i - 1) : ~_looks_like_credit(Inbox[s[j]])]

\* the loop of poll_email, lines 174-194: the first uid of the pass that is
\* not in seen_uids and whose body looks like a credit (0 when there is none)
RECURSIVE FirstHit(_, _)
FirstHit(s, seen) ==
    IF s = <<>> THEN 0
    ELSE IF Head(s) \in seen THEN FirstHit(Tail(s), seen)
    ELSE IF _looks_like_credit(Inbox[Head(s)]) THEN Head(s)
    ELSE FirstHit(Tail(s), seen)

\* the uids the pass meets in seen_uids before it returns
RECURSIVE SkippedBefore(_, _)
SkippedBefore(s, seen) ==
    IF s = <<>> THEN {}
    ELSE IF Head(s) \in seen THEN {Head(s)} \cup SkippedBefore(Tail(s), seen)
    ELSE IF _looks_like_credit(Inbox[Head(s)]) THEN {}
    ELSE SkippedBefore(Tail(s), seen)

----------------------------------------------------------------------------
(* Initial state: module load, lines 35-40 and 73 *)

\* _bootstrap_txns: column 1 of the sheet, or the empty set when the sheet fails
_bootstrap_txns == {LedgerRows, {}}

NotClassified == [done |-> FALSE, credit |-> FALSE, id |-> ""]

Init ==
    /\ now = StartTime
    /\ seen_uids = {}
    /\ bootIds \in _bootstrap_txns
    /\ seen_txn_ids = bootIds
    /\ queue = <<>>
    /\ status = <<>>
    /\ last_processed = 0
    /\ sheet = <<>>
    /\ mainPc = "poll"
    /\ txn_id = "none"
    /\ hit = 0
    /\ skipped = {}
    /\ unseen = {}
    /\ procPc = "idle"
    /\ cur = "none"
    /\ attempt = 0
    /\ ok = FALSE
    /\ lastFail = "none"
    /\ wakeAt = 0
    /\ openConns = 0
    /\ enqLog = <<>>
    /\ procLog = <<>>
    /\ termLog = <<>>
    /\ dropped = {}
    /\ cbody = <<>>
    /\ cres = NotClassified

mainVars == <<seen_uids, seen_txn_ids, sheet, mainPc, txn_id, hit, skipped, unseen,
              enqLog, dropped>>
procVars == <<last_processed, procPc, cur, attempt, ok, lastFail, wakeAt,
              openConns, procLog, termLog>>
harnessVars == <<cbody, cres, bootIds>>

----------------------------------------------------------------------------
(* The clock *)

\* A test of the clock is pending: send_mqtt is inside connected.wait or the
\* retry sleep, or the cooldown since last_processed has not elapsed.  Once
\* none is, later readings of the clock decide every test the same way.
ClockMatters ==
    \/ procPc \in {"wait", "retry"} /\ now < wakeAt
    \/ now - last_processed < COOLDOWN_SECONDS

Tick ==
    /\ ClockMatters
    /\ \E d \in TickSteps :
        /\ now + d <= StartTime + Horizon
        /\ now' = now + d
    /\ UNCHANGED <<queue, status, mainVars, procVars, harnessVars>>

----------------------------------------------------------------------------
(* main_loop thread *)

\* poll_email, lines 165-198, one pass.  U is what SEARCH UNSEEN returns;
\* err is where the IMAP session fails: "source" = login/select/search/fetch
\* raise (before anything is changed), "store" = mail.store raises.
PollEmail ==
    /\ mainPc = "poll"
    /\ \E U \in SUBSET UIDs, err \in {"none", "source", "store"} :
        LET h == IF err = "source" THEN 0 ELSE FirstHit(Recent(U), seen_uids)
        IN  IF h = 0
            THEN UNCHANGED <<seen_uids, txn_id, hit, skipped, unseen, mainPc>>
            ELSE /\ seen_uids' = seen_uids \cup {h}
                 /\ IF err = "store"
                    THEN UNCHANGED <<txn_id, hit, skipped, unseen, mainPc>>
                    ELSE /\ txn_id' = _extract_txn_id(Inbox[h], now)
                         /\ hit' = h
                         /\ skipped' = SkippedBefore(Recent(U), seen_uids)
                         /\ unseen' = Range(Recent(U))
                         /\ mainPc' = "check"
    /\ UNCHANGED <<now, queue, status, seen_txn_ids, sheet, enqLog, dropped,
                   procVars, harnessVars>>

IsNew_NoStatusCheck(id) == id \notin seen_txn_ids

IsNew_NoLedgerCheck(id) == id \notin DOMAIN status

\* line 241: txn_id not in status and txn_id not in seen_txn_ids
IsNew(id) == id \notin DOMAIN status /\ id \notin seen_txn_ids

\* line 241-242
MainCheck ==
    /\ mainPc = "check"
    /\ IF IsNew(txn_id)
       THEN /\ status' = Put(status, txn_id, "Queued")
            /\ mainPc' = "log"
            /\ UNCHANGED <<txn_id, hit, skipped, unseen, dropped>>
       ELSE /\ mainPc' = "poll"
            /\ dropped' = dropped \cup {hit}
            /\ txn_id' = "none"
            /\ hit' = 0
            /\ skipped' = {}
            /\ unseen' = {}
            /\ UNCHANGED status
    /\ UNCHANGED <<now, queue, seen_uids, seen_txn_ids, sheet, enqLog, procVars, harnessVars>>

\* log_payment, lines 75-83: the row is appended and the id remembered, or
\* the sheet raises and nothing is
log_payment(id, sheetOk) ==
    IF sheetOk
    THEN /\ sheet' = Append(sheet, id)
         /\ seen_txn_ids' = seen_txn_ids \cup {id}
    ELSE UNCHANGED <<sheet, seen_txn_ids>>

MainLog_Abort ==
    /\ mainPc = "log"
    /\ \E sheetOk \in BOOLEAN :
        /\ log_payment(txn_id, sheetOk)
        /\ mainPc' = IF sheetOk THEN "append" ELSE "poll"
    /\ UNCHANGED <<now, queue, status, seen_uids, txn_id, hit, skipped, unseen,
                   enqLog, dropped, procVars, harnessVars>>

\* line 243
MainLog ==
    /\ mainPc = "log"
    /\ \E sheetOk \in BOOLEAN : log_payment(txn_id, sheetOk)
    /\ mainPc' = "append"
    /\ UNCHANGED <<now, queue, status, seen_uids, txn_id, hit, skipped, unseen,
                   enqLog, dropped, procVars, harnessVars>>

MainAppend_WaitsForProcessor ==
    /\ mainPc = "append"
    /\ procPc \notin {"connect", "wait", "retry"}
    /\ queue' = Append(queue, txn_id)
    /\ enqLog' = Append(enqLog, [id |-> txn_id, uid |-> hit,
                                 busy |-> procPc \in {"connect", "wait", "retry"}])
    /\ mainPc' = "poll"
    /\ txn_id' = "none"
    /\ hit' = 0
    /\ skipped' = {}
    /\ unseen' = {}
    /\ UNCHANGED <<now, status, seen_uids, seen_txn_ids, sheet, dropped, procVars,
                   harnessVars>>

\* line 244-247
MainAppend ==
    /\ mainPc = "append"
    /\ queue' = Append(queue, txn_id)
    /\ enqLog' = Append(enqLog, [id |-> txn_id, uid |-> hit,
                                 busy |-> procPc \in {"connect", "wait", "retry"}])
    /\ mainPc' = "poll"
    /\ txn_id' = "none"
    /\ hit' = 0
    /\ skipped' = {}
    /\ unseen' = {}
    /\ UNCHANGED <<now, status, seen_uids, seen_txn_ids, sheet, dropped, procVars,
                   harnessVars>>

----------------------------------------------------------------------------
(* processor thread *)

CooldownElapsed_OffByOne(t) == t - last_processed >= COOLDOWN_SECONDS - 1

\* line 207: now - last_processed >= COOLDOWN_SECONDS
CooldownElapsed(t) == t - last_processed >= COOLDOWN_SECONDS

ProcGate_Reentrant ==
    /\ procPc \in {"idle", "retry"}
    /\ queue # <<>>
    /\ CooldownElapsed(now)
    /\ procPc' = "pop"
    /\ UNCHANGED <<now, queue, status, last_processed, cur, attempt, ok, lastFail,
                   wakeAt, openConns, procLog, termLog, mainVars, harnessVars>>

\* lines 205-207: the queue is not empty and the cooldown has elapsed
ProcGate ==
    /\ procPc = "idle"
    /\ queue # <<>>
    /\ CooldownElapsed(now)
    /\ procPc' = "pop"
    /\ UNCHANGED <<now, queue, status, last_processed, cur, attempt, ok, lastFail,
                   wakeAt, openConns, procLog, termLog, mainVars, harnessVars>>

popleft_Newest(q) == <<q[Len(q)], SubSeq(q, 1, Len(q) - 1)>>

popleft_Peek(q) == <<Head(q), q>>

\* deque.popleft(): the element returned and the deque left
popleft(q) == <<Head(q), Tail(q)>>

\* line 208
ProcPop ==
    /\ procPc = "pop"
    /\ cur' = popleft(queue)[1]
    /\ queue' = popleft(queue)[2]
    /\ procPc' = "mark"
    /\ UNCHANGED <<now, status, last_processed, attempt, ok, lastFail, wakeAt,
                   openConns, procLog, termLog, mainVars, harnessVars>>

\* lines 209-211: status Processing, then send_mqtt() is entered
ProcMark ==
    /\ procPc = "mark"
    /\ status' = Put(status, cur, "Processing")
    /\ procLog' = Append(procLog, cur)
    /\ attempt' = 1
    /\ lastFail' = "none"
    /\ procPc' = "connect"
    /\ UNCHANGED <<now, queue, last_processed, cur, ok, wakeAt, openConns,
                   termLog, mainVars, harnessVars>>

Except_Raises(kind) ==
    /\ lastFail' = kind
    /\ IF attempt < max_retries
       THEN /\ procPc' = "retry"
            /\ wakeAt' = now + retry_delay
            /\ UNCHANGED ok
       ELSE /\ procPc' = "raised"
            /\ ok' = FALSE
            /\ UNCHANGED wakeAt

\* send_mqtt, lines 117-121: the except clause of one attempt, then either the
\* retry sleep or the end of the loop and `return False`
Except(kind) ==
    /\ lastFail' = kind
    /\ IF attempt < max_retries
       THEN /\ procPc' = "retry"
            /\ wakeAt' = now + retry_delay
            /\ UNCHANGED ok
       ELSE /\ procPc' = "term"
            /\ ok' = FALSE
            /\ UNCHANGED wakeAt

\* send_mqtt, lines 90-106: a new client; connect raises (broker unreachable,
\* TLS failure) or the network loop is started and the wait begins
MqttConnect ==
    /\ procPc = "connect"
    /\ \/ /\ Except("connect")
          /\ UNCHANGED openConns
       \/ /\ procPc' = "wait"
          /\ wakeAt' = now + CONNECT_TIMEOUT
          /\ openConns' = openConns + 1
          /\ UNCHANGED <<ok, lastFail>>
    /\ UNCHANGED <<now, queue, status, last_processed, cur, attempt, procLog,
                   termLog, mainVars, harnessVars>>

\* send_mqtt, lines 108-116: on_connect ran within the wait (whatever its
\* reason code: the callback ignores it), publish returns rc, the loop is
\* stopped, the client disconnected, and rc == MQTT_ERR_SUCCESS is returned
MqttPublish ==
    /\ procPc = "wait"
    /\ now <= wakeAt
    /\ \E rcOk \in BOOLEAN :
        /\ ok' = rcOk
        /\ lastFail' = IF rcOk THEN "none" ELSE "publish"
    /\ openConns' = openConns - 1
    /\ procPc' = "term"
    /\ UNCHANGED <<now, queue, status, last_processed, cur, attempt, wakeAt,
                   procLog, termLog, mainVars, harnessVars>>

\* send_mqtt, lines 108-109: connected.wait(timeout=5) returns False and
\* TimeoutError is raised; the started loop is neither stopped nor disconnected
MqttTimeout ==
    /\ procPc = "wait"
    /\ now >= wakeAt
    /\ Except("timeout")
    /\ UNCHANGED <<now, queue, status, last_processed, cur, attempt, openConns,
                   procLog, termLog, mainVars, harnessVars>>

\* send_mqtt, line 120 and back to line 88: the sleep ends, the next attempt
MqttRetry ==
    /\ procPc = "retry"
    /\ now >= wakeAt
    /\ attempt' = attempt + 1
    /\ procPc' = "connect"
    /\ UNCHANGED <<now, queue, status, last_processed, cur, ok, lastFail, wakeAt,
                   openConns, procLog, termLog, mainVars, harnessVars>>

TerminalStatus_Requeue(wasOk) == IF wasOk THEN "Completed" ELSE "Queued"

\* line 212: "Completed" if ok else "Failed"
TerminalStatus(wasOk) == IF wasOk THEN "Completed" ELSE "Failed"

\* line 212
ProcTerm ==
    /\ procPc = "term"
    /\ status' = Put(status, cur, TerminalStatus(ok))
    /\ termLog' = Append(termLog, [id |-> cur, ok |-> ok, at |-> now])
    /\ procPc' = "stamp"
    /\ UNCHANGED <<now, queue, last_processed, cur, attempt, ok, lastFail, wakeAt,
                   openConns, procLog, mainVars, harnessVars>>

ProcStamp_OnlyOnSuccess ==
    /\ procPc = "stamp"
    /\ last_processed' = IF ok THEN now ELSE last_processed
    /\ procPc' = "idle"
    /\ cur' = "none"
    /\ attempt' = 0
    /\ ok' = FALSE
    /\ lastFail' = "none"
    /\ wakeAt' = 0
    /\ UNCHANGED <<now, queue, status, openConns, procLog, termLog, mainVars,
                   harnessVars>>

\* line 214, then the sleep of line 218 and the next iteration; the locals
\* of the finished iteration are dead and are cleared
ProcStamp ==
    /\ procPc = "stamp"
    /\ last_processed' = now
    /\ procPc' = "idle"
    /\ cur' = "none"
    /\ attempt' = 0
    /\ ok' = FALSE
    /\ lastFail' = "none"
    /\ wakeAt' = 0
    /\ UNCHANGED <<now, queue, status, openConns, procLog, termLog, mainVars,
                   harnessVars>>

----------------------------------------------------------------------------
(* The program *)

Next ==
    \/ Tick
    \/ PollEmail
    \/ MainCheck
    \/ MainLog
    \/ MainAppend
    \/ ProcGate
    \/ ProcPop
    \/ ProcMark
    \/ MqttConnect
    \/ MqttPublish
    \/ MqttTimeout
    \/ MqttRetry
    \/ ProcTerm
    \/ ProcStamp

Spec == Init /\ [][Next]_vars

\* a statement of the processor thread, send_mqtt included
processor_step ==
    \/ ProcGate
    \/ ProcPop
    \/ ProcMark
    \/ MqttConnect
    \/ MqttPublish
    \/ MqttTimeout
    \/ MqttRetry
    \/ ProcTerm
    \/ ProcStamp

\* a statement of the main_loop thread after poll_email has returned an id
main_loop_step == MainCheck \/ MainLog \/ MainAppend

\* The program with its scheduling: both threads are started at lines 251-252
\* and each keeps running (every blocking call of send_mqtt is bounded: the
\* 5 s wait, the 5 s sleep, at most max_retries attempts), and time passes.
SpecFair ==
    /\ Init
    /\ [][Next]_vars
    /\ WF_vars(Tick)
    /\ WF_vars(processor_step)
    /\ WF_vars(main_loop_step)

----------------------------------------------------------------------------
(* The classifier alone, on every body of at most MaxBodyLen words *)

Vocabulary ==
    {"rupee5", "successfully", "credited", "Credited", "debited", "has", "been",
     "reference", "12345678"}

Bodies == UNION {[1..n -> Vocabulary] : n \in 0..MaxBodyLen}

\* lines 189-190 of poll_email on one body
Classify ==
    /\ ~cres.done
    /\ cres' = [done |-> TRUE,
                credit |-> _looks_like_credit(cbody),
                id |-> IF _looks_like_credit(cbody)
                       THEN _extract_txn_id(cbody, now) ELSE ""]
    /\ UNCHANGED <<now, queue, status, mainVars, procVars, cbody, bootIds>>

InitClassify ==
    /\ cbody \in Bodies
    /\ cres = NotClassified
    /\ now = StartTime
    /\ seen_uids = {}
    /\ bootIds = {}
    /\ seen_txn_ids = {}
    /\ queue = <<>>
    /\ status = <<>>
    /\ last_processed = 0
    /\ sheet = <<>>
    /\ mainPc = "poll"
    /\ txn_id = "none"
    /\ hit = 0
    /\ skipped = {}
    /\ unseen = {}
    /\ procPc = "idle"
    /\ cur = "none"
    /\ attempt = 0
    /\ ok = FALSE
    /\ lastFail = "none"
    /\ wakeAt = 0
    /\ openConns = 0
    /\ enqLog = <<>>
    /\ procLog = <<>>
    /\ termLog = <<>>
    /\ dropped = {}

NextClassify == Classify

SpecClassify == InitClassify /\ [][NextClassify]_vars

----------------------------------------------------------------------------
(* Properties *)

Last(q) == q[Len(q)]

EnqCount(id) == Cardinality({i \in 1..Len(enqLog) : enqLog[i].id = id})

EnqByUid(u) == Cardinality({i \in 1..Len(enqLog) : enqLog[i].uid = u})

TermCount(id) == Cardinality({i \in 1..Len(termLog) : termLog[i].id = id})

RowCount(id) == Cardinality({i \in 1..Len(sheet) : sheet[i] = id})

EverIds ==
    DOMAIN status \cup {enqLog[i].id : i \in 1..Len(enqLog)}
                  \cup {termLog[i].id : i \in 1..Len(termLog)}

\* the id the classifier extracts from the message with this uid
IdOf(u) == _extract_txn_id(Inbox[u], now)

\* C1 (Uniqueness): over the whole run every transaction id is appended to
\* the dispatch queue at most once and is given a terminal status (Completed
\* or Failed) at most once.
C1_Uniqueness ==
    \A id \in EverIds : EnqCount(id) <= 1 /\ TermCount(id) <= 1

\* an id that was queued once and finished once although a second
\* notification carrying it was returned by poll_email and discarded
C1_Witness ==
    \E u \in dropped :
        /\ EnqCount(IdOf(u)) = 1
        /\ TermCount(IdOf(u)) = 1

\* C2 (Cooldown floor): any two consecutive terminal status assignments of
\* the scheduler are at least COOLDOWN_SECONDS apart, whatever their outcomes
\* and however long the dispatches took.
C2_CooldownFloor ==
    \A i \in 1..(Len(termLog) - 1) :
        termLog[i + 1].at - termLog[i].at >= COOLDOWN_SECONDS

\* a failed dispatch followed by a second dispatch exactly one cooldown later
C2_Witness ==
    /\ Len(termLog) = 2
    /\ ~termLog[1].ok
    /\ termLog[2].at - termLog[1].at = COOLDOWN_SECONDS

\* C3 (FIFO preservation): ids become Processing in the order in which they
\* were appended to the queue: the sequence of ids set to Processing is a
\* prefix of the sequence of ids appended, also after a failed dispatch.
C3_Fifo ==
    /\ Len(procLog) <= Len(enqLog)
    /\ \A i \in 1..Len(procLog) : procLog[i] = enqLog[i].id

\* two ids went through Processing in enqueue order, the first one Failed
C3_Witness ==
    /\ Len(procLog) = 2
    /\ Len(termLog) >= 1
    /\ ~termLog[1].ok
    /\ procLog[1] # procLog[2]

\* C4 (Retry bound on any failure), as claimed: whenever send_mqtt returns
\* False, every attempt having failed, it has made exactly max_retries
\* attempts.
C4_RetryBound ==
    (procPc = "term" /\ ~ok) => attempt = max_retries

\* C5 (Idempotent re-ingestion): no notification (uid) is the source of more
\* than one queue entry, and a uid that poll_email returns is never one that
\* was returned before: it was not skipped in this pass, not discarded
\* earlier and not queued earlier; what a pass skips is in seen_uids.
C5_Idempotent ==
    /\ \A u \in UIDs : EnqByUid(u) <= 1
    /\ hit # 0 => (EnqByUid(hit) = 0 /\ hit \notin skipped /\ hit \notin dropped)
    /\ skipped \subseteq seen_uids

\* a notification that was queued once is presented again and skipped
C5_Witness ==
    \E u \in skipped : EnqByUid(u) = 1 /\ status[IdOf(u)] = "Queued"

\* C6 (Duplicate id across source refs): an id is queued and recorded to the
\* sheet at most once whatever the number of notifications carrying it; an
\* id with a status has been queued exactly once, or main_loop is between
\* lines 242 and 244 for it; the id main_loop goes on to record and queue was
\* never queued or recorded before; a notification is discarded only when
\* its id has a status or is known from the sheet; and the uid of every
\* notification poll_email returned, discarded ones included, is in seen_uids.
C6_DuplicateDropped ==
    /\ \A id \in EverIds : EnqCount(id) <= 1 /\ RowCount(id) <= 1
    /\ \A id \in DOMAIN status :
        EnqCount(id) = 1 \/ (mainPc \in {"log", "append"} /\ txn_id = id)
    /\ mainPc = "log" => (EnqCount(txn_id) = 0 /\ RowCount(txn_id) = 0)
    /\ mainPc = "append" => EnqCount(txn_id) = 0
    /\ \A u \in dropped : IdOf(u) \in DOMAIN status \/ IdOf(u) \in seen_txn_ids
    /\ dropped \subseteq seen_uids
    /\ hit # 0 => hit \in seen_uids

\* two notifications with different uids and the same id were both returned
\* by poll_email; one was queued, the other discarded
C6_Witness ==
    \E u \in dropped, v \in UIDs :
        /\ u # v
        /\ IdOf(u) = IdOf(v)
        /\ EnqByUid(v) = 1
        /\ EnqCount(IdOf(u)) = 1
        /\ u \in seen_uids

\* C8 (Failed dispatch still consumes the cooldown): every terminal
\* assignment leaves the status its outcome calls for (Failed when send_mqtt
\* returned False), and outside the one step between lines 212 and 214
\* last_processed is not older than the latest terminal assignment, so the
\* stamp is made before any later pop, on failure as on success.
C8_FailedConsumesCooldown ==
    /\ \A i \in 1..Len(termLog) :
        /\ termLog[i].id \in DOMAIN status
        /\ status[termLog[i].id] = IF termLog[i].ok THEN "Completed" ELSE "Failed"
    /\ (termLog # <<>> /\ procPc # "stamp") => last_processed >= Last(termLog).at
    /\ procPc = "stamp" => (termLog # <<>> /\ Last(termLog).id = cur)

\* a dispatch failed, its id is Failed and last_processed is the time of it
C8_Witness ==
    /\ termLog # <<>>
    /\ ~Last(termLog).ok
    /\ procPc = "idle"
    /\ status[Last(termLog).id] = "Failed"
    /\ last_processed = Last(termLog).at
    /\ last_processed > 0

StatusSteps ==
    {<<"Queued", "Processing">>, <<"Processing", "Completed">>,
     <<"Processing", "Failed">>}

C9_Step ==
    /\ \A id \in DOMAIN status :
        /\ id \in DOMAIN status'
        /\ status'[id] = status[id] \/ <<status[id], status'[id]>> \in StatusSteps
    /\ \A id \in DOMAIN status' \ DOMAIN status : status'[id] = "Queued"
    /\ \A i \in 1..Len(queue') : status'[queue'[i]] = "Queued"
    /\ cur' # cur /\ cur' # "none" => status[cur'] = "Queued"

\* C9 (Status state machine): in every step a status record is kept and
\* either unchanged or moved Queued -> Processing, Processing -> Completed or
\* Processing -> Failed; a new record starts Queued; every id in the queue is
\* Queued and every id the scheduler pops is Queued, so a Completed or Failed
\* id is never queued or dispatched again.
C9_StatusMachine == [][C9_Step]_vars

\* a notification carrying the id of a Failed transaction is being checked
C9_Witness ==
    /\ mainPc = "check"
    /\ txn_id \in DOMAIN status
    /\ status[txn_id] = "Failed"

\* C10 (Ledger-seeded dedup): an id that _bootstrap_txns returned never has a
\* status, is never appended to the sheet and never appended to the queue.
C10_LedgerSeeded ==
    \A id \in bootIds :
        /\ id \notin DOMAIN status
        /\ RowCount(id) = 0
        /\ EnqCount(id) = 0
        /\ \A i \in 1..Len(queue) : queue[i] # id

\* a notification carrying a ledger id was returned by poll_email and discarded
C10_Witness ==
    \E u \in dropped : IdOf(u) \in bootIds

\* C11 (knownIds covers the queue history), as claimed: seen_txn_ids holds
\* every id that was ever appended to the queue, also when the append to the
\* sheet failed.
C11_KnownIdsCoverQueue ==
    \A i \in 1..Len(enqLog) : enqLog[i].id \in seen_txn_ids

\* C12 (No transaction lost on a source error), as claimed: whenever the uid
\* of an accepted notification is in seen_uids, its id has a status, is known
\* from the sheet, or is the one main_loop is holding; a failure of
\* mail.store does not leave a consumed uid whose id went nowhere.
C12_NoLostTransaction ==
    \A u \in seen_uids :
        \/ IdOf(u) \in DOMAIN status
        \/ IdOf(u) \in seen_txn_ids
        \/ (mainPc = "check" /\ hit = u)

\* the uids of the pass in progress that poll_email could return: accepted by
\* the classifier and not in seen_uids when the pass began
Eligible ==
    {u \in unseen : _looks_like_credit(Inbox[u]) /\ (u \notin seen_uids \/ u = hit)}

\* C13 (One tick handles the whole window), as claimed: the iteration of
\* main_loop that ends with queue.append leaves every accepted notification
\* of its pass that carried a new id Queued and in the queue.
C13_WholeWindow ==
    [][(mainPc = "append" /\ mainPc' = "poll") =>
        \A u \in Eligible :
            (u = hit \/ IsNew(IdOf(u))) =>
                /\ IdOf(u) \in Range(queue')
                /\ IdOf(u) \in DOMAIN status'
                /\ status'[IdOf(u)] = "Queued"]_vars

\* C13, amended: an iteration of main_loop enqueues one id, that of the
\* newest notification of the pass that is accepted and not in seen_uids;
\* every other such notification of the pass stays out of seen_uids and out
\* of the queue history, left to a later pass.
C13_OnePerTick ==
    [][(mainPc = "append" /\ mainPc' = "poll") =>
        /\ hit \in Eligible
        /\ \A u \in Eligible : u <= hit
        /\ queue' = Append(queue, IdOf(hit))
        /\ Len(enqLog') = Len(enqLog) + 1
        /\ \A u \in Eligible \ {hit} :
            /\ u \notin seen_uids'
            /\ \A i \in 1..Len(enqLog') : enqLog'[i].uid # u]_vars

\* a pass met two accepted notifications with two new ids and is about to
\* append the id of the first
C13_Witness ==
    /\ mainPc = "append"
    /\ \E u \in Eligible \ {hit} : IdOf(u) # txn_id /\ IsNew(IdOf(u))

\* C14 (Rejected notifications are consumed), as claimed: a notification the
\* pass fetched and the classifier rejected (it comes before the one returned,
\* newest first, and was not skipped) has its uid in seen_uids.
C14_RejectedConsumed ==
    \A u \in unseen :
        (hit # 0 /\ u > hit /\ u \notin skipped /\ ~_looks_like_credit(Inbox[u]))
            => u \in seen_uids

\* C15 (Ledger failure does not block enqueue): an id that was given a status
\* and has no row in the sheet (log_payment failed, or has not run yet) was
\* appended to the queue exactly once, or main_loop is holding it, Queued, on
\* its way to queue.append.
C15_LedgerFailureDoesNotBlock ==
    \A id \in DOMAIN status :
        RowCount(id) = 0 =>
            \/ EnqCount(id) = 1
            \/ (mainPc \in {"log", "append"} /\ txn_id = id /\ status[id] = "Queued")

\* the sheet failed for an id that now waits in the queue, Queued, and
\* main_loop is polling again
C15_Witness ==
    /\ mainPc = "poll"
    /\ \E i \in 1..Len(enqLog) :
        /\ RowCount(enqLog[i].id) = 0
        /\ enqLog[i].id \notin seen_txn_ids
        /\ enqLog[i].id \in Range(queue)
        /\ status[enqLog[i].id] = "Queued"

\* the ids whose status is Processing
Processing == {id \in DOMAIN status : status[id] = "Processing"}

\* the processor is inside send_mqtt (an attempt, or the sleep between two)
InSendMqtt == procPc \in {"connect", "wait", "retry"}

\* C16 (Single dispatch in flight): at most one id is Processing; the
\* dispatches begun exceed the dispatches ended by at most one; while
\* send_mqtt runs, retries included, the id it sends is the only one
\* Processing and the last one popped; an id is Processing only while the
\* processor is between the pop and the terminal status.
C16_SingleDispatch ==
    /\ Cardinality(Processing) <= 1
    /\ Len(procLog) - Len(termLog) \in {0, 1}
    /\ InSendMqtt =>
        /\ Processing = {cur}
        /\ Len(procLog) = Len(termLog) + 1
        /\ Last(procLog) = cur
    /\ Processing # {} => (InSendMqtt \/ procPc = "term")

\* the second attempt of a dispatch has failed and send_mqtt sleeps, while
\* another id waits in the queue with the cooldown elapsed
C16_Witness ==
    /\ procPc = "retry"
    /\ attempt = 2
    /\ queue # <<>>
    /\ CooldownElapsed(now)
    /\ Processing = {cur}

\* the shared structures the statement main_loop is at reads or writes:
\* line 241-242 (status, seen_txn_ids), log_payment line 80 (seen_txn_ids),
\* line 244 (queue); poll_email touches seen_uids only
main_loop_touches ==
    CASE mainPc = "check" -> {"status", "seen_txn_ids"}
      [] mainPc = "log" -> {"seen_txn_ids"}
      [] mainPc = "append" -> {"queue"}
      [] OTHER -> {}

\* the same for processor: lines 204-207 (queue, last_processed), 208 (queue),
\* 209 and 212 (status), 214 (last_processed); send_mqtt touches none
processor_touches ==
    CASE procPc = "idle" -> {"queue", "last_processed"}
      [] procPc = "pop" -> {"queue"}
      [] procPc \in {"mark", "term"} -> {"status"}
      [] procPc = "stamp" -> {"last_processed"}
      [] OTHER -> {}

\* the locks a thread holds between two of its statements: the only lock of
\* the file, imap_lock, is taken and released inside poll_email (line 169),
\* within PollEmail, and processor takes none
locks_held == [main_loop |-> {}, processor |-> {}]

\* C17 (Mutual exclusion on shared structures), as claimed: the two threads
\* are never at accesses of the same shared structure (seen_txn_ids, status,
\* queue, last_processed) at the same time unless one of them holds a lock.
C17_MutualExclusion ==
    \A s \in main_loop_touches \cap processor_touches :
        locks_held.main_loop \cup locks_held.processor # {}

\* C18 (Ingestion is not blocked by dispatch): while send_mqtt runs, its
\* waits and the sleeps between attempts included, the main_loop thread can
\* always take its next step, whichever statement it is at: the pass of
\* poll_email, the test of line 241, log_payment, or queue.append.
C18_IngestionNotBlocked ==
    InSendMqtt =>
        /\ mainPc = "check" => ENABLED MainCheck
        /\ mainPc = "log" => ENABLED MainLog
        /\ mainPc = "append" => ENABLED MainAppend
        /\ mainPc = "poll" => ENABLED PollEmail

\* send_mqtt is asleep after a failed second attempt, and an id that was
\* appended to the queue while send_mqtt was running waits there, Queued
C18_Witness ==
    /\ procPc = "retry"
    /\ attempt = 2
    /\ \E i \in 1..Len(enqLog) :
        /\ enqLog[i].busy
        /\ enqLog[i].id # cur
        /\ enqLog[i].id \in Range(queue)
        /\ status[enqLog[i].id] = "Queued"

\* C19 (Each attempt opens and closes its own connection), as claimed:
\* outside the wait of an attempt (before the next attempt, during the sleep
\* between two, and once send_mqtt has returned) no client whose network loop
\* was started is left without loop_stop and disconnect.
C19_ConnectionsClosed ==
    procPc # "wait" => openConns = 0

\* the ids the notifications of the inbox carry
InboxIds == {_extract_txn_id(Inbox[u], 0) : u \in UIDs}

\* the clock has reached the horizon of the model: no reading fits any more
ClockExhausted == \A d \in TickSteps : now + d > StartTime + Horizon

\* C20 (Eventual dispatch): with both threads scheduled fairly and time
\* advancing, every id that is in the queue is later Completed or Failed;
\* only where the clock of the model has run out is a dispatch left
\* unfinished.
C20_EventualDispatch ==
    \A id \in InboxIds :
        (id \in Range(queue)) ~>
            \/ (id \in DOMAIN status /\ status[id] \in {"Completed", "Failed"})
            \/ ClockExhausted

\* two ids went through the queue and both dispatches ended, the first
\* failed after all its attempts, before the clock ran out
C20_Witness ==
    /\ Len(termLog) = 2
    /\ ~termLog[1].ok
    /\ queue = <<>>
    /\ \A i \in 1..Len(enqLog) : status[enqLog[i].id] \in {"Completed", "Failed"}
    /\ ~ClockExhausted

----------------------------------------------------------------------------
(* The classifier rule of the specification, for C7 *)

HasMarker(body) == \E m \in SEARCH_STRINGS : Contains(lower(body), m)

\* the wording the code counts as a credit (lines 156-161)
CreditLanguage(body) ==
    \/ Contains(lower(body), <<"successfully", "credited">>)
    \/ Contains(lower(body), <<"has", "been", "credited">>)

DebitLanguage(body) == Contains(lower(body), <<"debited">>)

\* C7 (Classifier acceptance rule), as claimed: a body is accepted if and
\* only if it contains one of SEARCH_STRINGS, contains credit wording and
\* contains no debit wording.
C7_ClassifierRule ==
    cres.done =>
        (cres.credit <=>
            (HasMarker(cbody) /\ CreditLanguage(cbody) /\ ~DebitLanguage(cbody)))

====
